---------------------------- MODULE Spec2Model ----------------------------
(***************************************************************************)
(* Model of zmk.c, the ZMK (Zeroizable Master Key) programming example for *)
(* the SNVS block.  main() is a straight line of register reads and        *)
(* read-modify-writes against a memory-mapped window; every labelled step  *)
(* of the source (A.1 .. A.3, B.1 .. B.10) is one action.                  *)
(*                                                                         *)
(* Register values are 32-bit words; the model draws them from values      *)
(* below 2^31, so that int and unsigned int agree on them.                 *)
(***************************************************************************)
EXTENDS Integers, Sequences, FiniteSets, TLC

(***************************************************************************)
(* Constants of the source (decimal; the source writes them in hex).       *)
(***************************************************************************)
POR == 4096
SYSTEM_RESET == 8192

SNVS_HPLR == 0
ZMK_WSL_MASK == 1
ZMK_WSL_OFFSET == 0
ZMK_RSL_MASK == 2
ZMK_RSL_OFFSET == 1
MKS_SL_MASK == 512
MKS_SL_OFFSET == 9

SNVS_HPCOMR == 4
MKS_EN_MASK == 8192

SNVS_HPSR == 20
SSM_ST_MASK == 3840
SSM_ST_OFFSET == 8

SNVS_LPLR == 52
ZMK_WHL_MASK == 1
ZMK_WHL_OFFSET == 0
ZMK_RHL_MASK == 2
ZMK_RHL_OFFSET == 1
MKS_HL_MASK == 512
MKS_HL_OFFSET == 9

SNVS_LPMKCR == 60
ZMK_HWP_MASK == 4
ZMK_HWP_OFFSET == 2
ZMK_VAL_MASK == 8
MASTER_KEY_SEL_VALUE == 2
ZMK_ECC_EN == 16

SNVS_LPSR == 76
PGD_MASK == 8

SNVS_LPPGDR == 100
POWER_GLITCH_VALUE == 1098080614

SNVS_LPZMKRn == 108
ZMK_VALUE == 287454020

\* The length in bytes requested from mmap for the register window.
ADDR_SIZE == 4

SNVS_HPVIDR1 == 3064
IP_ID_MASK == 2147418112
IP_ID_OFFSET == 16
MAJOR_REV_MASK == 65280
MAJOR_REV_OFFSET == 8
MINOR_REV_MASK == 255
MINOR_REV_OFFSET == 0

SNVS_HPVIDR2 == 3068

TIMEOUT_MAX_VAL == 4096

\* The registers main() touches.
Regs ==
  {SNVS_HPLR, SNVS_HPCOMR, SNVS_HPSR, SNVS_LPLR, SNVS_LPMKCR, SNVS_LPSR,
   SNVS_LPPGDR, SNVS_LPZMKRn, SNVS_HPVIDR1, SNVS_HPVIDR2}

(***************************************************************************)
(* Bitwise operations on non-negative words.                               *)
(***************************************************************************)
RECURSIVE BitAnd(_, _)
BitAnd(a, b) ==
  IF a = 0 \/ b = 0 THEN 0
  ELSE (a % 2) * (b % 2) + 2 * BitAnd(a \div 2, b \div 2)

RECURSIVE BitOr(_, _)
BitOr(a, b) ==
  IF a = 0 THEN b
  ELSE IF b = 0 THEN a
  ELSE ((a % 2) + (b % 2) - (a % 2) * (b % 2)) + 2 * BitOr(a \div 2, b \div 2)

ShiftRight(a, n) == a \div (2 ^ n)

\* Assignment of an int to an unsigned char keeps the low eight bits.
UnsignedChar(v) == v % 256

VARIABLES
  pc,          \* the step main() is at
  mem,         \* the register window: offset -> word the hardware holds
  trace,       \* every register access so far: <<"r"|"w", offset, word>>
  i,           \* the busy-wait counter (volatile int i)
  ret,         \* main()'s return value, meaningful once pc = "done"
  outcome,     \* the diagnostic class printed: "none" until one is printed
  RESET,       \* the build's reset policy (#define RESET)
  ecc_enable,  \* the operator's ecc_enable option; the source never reads it
  mem0,        \* the register window as it was before the run
  fd,          \* the descriptor of /dev/mem: -1 while the process holds none
  mapped,      \* whether the process holds the mapping of the window
  lockedBy,    \* which lock message was printed: "hwp", "soft", "hard"
  hw,          \* what the hardware did to the key register in this run
  run,         \* 1 in the run; 2 in the run repeated in another valid mode
  first        \* what run 1 did, kept for the run that repeats it

vars ==
  <<pc, mem, trace, i, ret, outcome, RESET, ecc_enable, mem0,
    fd, mapped, lockedBy, hw, run, first>>

(***************************************************************************)
(* The register access macros.                                             *)
(***************************************************************************)
get_SNVS_reg(m, add_offset) == m[add_offset]

get_value_of_SNVS_reg_field(m, add_offset, field, offset) ==
  ShiftRight(BitAnd(get_SNVS_reg(m, add_offset), field), offset)

\* A plain overwrite: the word stored is value alone.
StoredWord_Overwrite(m, add_offset, value) == value

\* The word set_value_of_SNVS_reg stores: the register's word OR value.
StoredWord(m, add_offset, value) == BitOr(get_SNVS_reg(m, add_offset), value)

set_value_of_SNVS_reg(m, add_offset, value) ==
  [m EXCEPT ![add_offset] = StoredWord(m, add_offset, value)]

\* The accesses a read and a set_value_of_SNVS_reg add to the trace.
LogRead(t, m, add_offset) == Append(t, <<"r", add_offset, m[add_offset]>>)

LogSet(t, m, add_offset, value) ==
  Append(LogRead(t, m, add_offset),
         <<"w", add_offset, StoredWord(m, add_offset, value)>>)

\* The process exit status of a return value of main().
ExitStatus(r) == r % 256

(***************************************************************************)
(* Initial register windows.                                               *)
(***************************************************************************)
\* The largest stale word tried in the key register (besides 0 and ZMK_VALUE).
MaxStaleKey == 1

SSMValues == {0, 10, 11, 12, 13, 14, 15}
LockWords == {a + b + c : a \in {0, 1}, b \in {0, 2}, c \in {0, 512}}
LPMKCRWords == {0, 1, 4, 5}
KeyWords == {0, ZMK_VALUE} \cup (1 .. MaxStaleKey)
GlitchWords == {0, 1}

Windows ==
  { [r \in Regs |->
       CASE r = SNVS_HPSR -> ssm * 256 + 4097
         [] r = SNVS_HPLR -> hplr
         [] r = SNVS_LPLR -> lplr
         [] r = SNVS_LPMKCR -> lpmkcr
         [] r = SNVS_LPZMKRn -> key
         [] r = SNVS_LPPGDR -> pgd
         [] r = SNVS_HPVIDR1 -> 4064000
         [] OTHER -> 0] :
      ssm \in SSMValues, hplr \in LockWords, lplr \in LockWords,
      lpmkcr \in LPMKCRWords, key \in KeyWords, pgd \in GlitchWords }

\* Nothing is known yet of what the hardware does to the key register.
HwUnset == [key |-> "unset", zero |-> "unset"]

\* No run has ended yet.
NoRun == [writes |-> <<>>, outcome |-> "none", status |-> 0, hw |-> HwUnset]

Init ==
  /\ pc = "open"
  /\ mem \in Windows
  /\ mem0 = mem
  /\ trace = <<>>
  /\ i = 0
  /\ ret = 0
  /\ outcome = "none"
  /\ RESET \in {POR, SYSTEM_RESET}
  /\ ecc_enable \in BOOLEAN
  /\ fd = -1
  /\ mapped = FALSE
  /\ lockedBy = "none"
  /\ hw = HwUnset
  /\ run = 1
  /\ first = NoRun

\* return -1 with the diagnostic class of the message printed before it.
Fail(o) ==
  /\ pc' = "done"
  /\ ret' = -1
  /\ outcome' = o

\* return -1 after one of the three lock messages of B.1 and B.2.
FailLocked(c) ==
  /\ Fail("LockedOut")
  /\ lockedBy' = c

Goto(l) ==
  /\ pc' = l
  /\ UNCHANGED <<ret, outcome>>

\* open("/dev/mem"): fd < 0 returns -1.
Open ==
  /\ pc = "open"
  /\ \E ok \in BOOLEAN :
       IF ok THEN Goto("mmap") /\ fd' = 3
             ELSE Fail("OpenFailed") /\ fd' = -1
  /\ UNCHANGED <<mem, trace, i, RESET, ecc_enable, mem0, run, first,
               mapped, lockedBy, hw>>

\* mmap(): MAP_FAILED returns -1.
Mmap ==
  /\ pc = "mmap"
  /\ \E ok \in BOOLEAN :
       IF ok THEN Goto("info") /\ mapped' = TRUE
             ELSE Fail("MapFailed") /\ mapped' = FALSE
  /\ UNCHANGED <<mem, trace, i, RESET, ecc_enable, mem0, run, first,
               fd, lockedBy, hw>>

\* The version and lock registers printed before the algorithm starts.
Info ==
  /\ pc = "info"
  /\ trace' = LogRead(LogRead(LogRead(LogRead(LogRead(LogRead(LogRead(LogRead(
                trace, mem, SNVS_HPVIDR1), mem, SNVS_HPVIDR2),
                mem, SNVS_HPVIDR1), mem, SNVS_HPVIDR1), mem, SNVS_HPVIDR1),
                mem, SNVS_LPZMKRn), mem, SNVS_HPLR), mem, SNVS_LPLR)
  /\ Goto("A1")
  /\ UNCHANGED <<mem, i, RESET, ecc_enable, mem0, run, first,
               fd, mapped, lockedBy, hw>>

\* A.1: the SSM state must be non-secure (0xb), trusted (0xd) or secure (0xf).
SSM_state(m) ==
  UnsignedChar(get_value_of_SNVS_reg_field(m, SNVS_HPSR, SSM_ST_MASK, SSM_ST_OFFSET))

\* if ( SSM_state >= 0xB )
SSMAtThreshold(s) == s >= 11

\* The switch without its case for Secure (0xF).
SSMKnownMode_NoSecure(s) == s \in {11, 13}

\* The switch with no default case: every mode passes.
SSMKnownMode_NoDefault(s) == s \in 0 .. 15

\* The cases of the switch that break; the default case returns -1.
SSMKnownMode(s) == s \in {11, 13, 15}

\* A.1 with the return of the outer else branch missing.
A1_NoReturnBelowThreshold ==
  /\ pc = "A1"
  /\ trace' = LogRead(trace, mem, SNVS_HPSR)
  /\ IF SSMAtThreshold(SSM_state(mem))
       THEN IF SSMKnownMode(SSM_state(mem))
              THEN Goto("A2")
              ELSE Fail("WrongMode")
       ELSE Goto("A2")
  /\ UNCHANGED <<mem, i, RESET, ecc_enable, mem0, run, first,
               fd, mapped, lockedBy, hw>>

A1 ==
  /\ pc = "A1"
  /\ trace' = LogRead(trace, mem, SNVS_HPSR)
  /\ IF SSMAtThreshold(SSM_state(mem))
       THEN IF SSMKnownMode(SSM_state(mem))
              THEN Goto("A2")
              ELSE Fail("WrongMode")
       ELSE Fail("WrongMode")
  /\ UNCHANGED <<mem, i, RESET, ecc_enable, mem0, run, first,
               fd, mapped, lockedBy, hw>>

\* A.2: set the Power Glitch Detector Register.
A2 ==
  /\ pc = "A2"
  /\ mem' = set_value_of_SNVS_reg(mem, SNVS_LPPGDR, POWER_GLITCH_VALUE)
  /\ trace' = LogRead(LogSet(LogRead(trace, mem, SNVS_LPPGDR),
                             mem, SNVS_LPPGDR, POWER_GLITCH_VALUE),
                      mem', SNVS_LPPGDR)
  /\ Goto("A3")
  /\ UNCHANGED <<i, RESET, ecc_enable, mem0, run, first,
               fd, mapped, lockedBy, hw>>

\* A.3: clear the power glitch record in the LP Status Register.
A3 ==
  /\ pc = "A3"
  /\ mem' = set_value_of_SNVS_reg(mem, SNVS_LPSR, PGD_MASK)
  /\ trace' = LogRead(LogSet(LogRead(trace, mem, SNVS_LPSR),
                             mem, SNVS_LPSR, PGD_MASK),
                      mem', SNVS_LPSR)
  /\ Goto("B1")
  /\ UNCHANGED <<i, RESET, ecc_enable, mem0, run, first,
               fd, mapped, lockedBy, hw>>

\* B.1: ZMK_HWP must not be set.
\* The ZMK_HWP field read with the mask and shift of ZMK_VAL.
ZMK_HWP_state_WrongField(m) ==
  UnsignedChar(get_value_of_SNVS_reg_field(m, SNVS_LPMKCR, ZMK_VAL_MASK, 3))

ZMK_HWP_state(m) ==
  UnsignedChar(get_value_of_SNVS_reg_field(m, SNVS_LPMKCR, ZMK_HWP_MASK, ZMK_HWP_OFFSET))

B1 ==
  /\ pc = "B1"
  /\ trace' = LogRead(LogRead(trace, mem, SNVS_LPMKCR), mem, SNVS_LPMKCR)
  /\ IF ZMK_HWP_state(mem) = 0
       THEN Goto("B2") /\ UNCHANGED lockedBy
       ELSE FailLocked("hwp")
  /\ UNCHANGED <<mem, i, RESET, ecc_enable, mem0, run, first,
               fd, mapped, hw>>

\* B.2: the six lock latches, read from SNVS_HPLR and SNVS_LPLR.
ZMK_WSL_state(m) ==
  UnsignedChar(get_value_of_SNVS_reg_field(m, SNVS_HPLR, ZMK_WSL_MASK, ZMK_WSL_OFFSET))
ZMK_RSL_state(m) ==
  UnsignedChar(get_value_of_SNVS_reg_field(m, SNVS_HPLR, ZMK_RSL_MASK, ZMK_RSL_OFFSET))
MKS_SL_state(m) ==
  UnsignedChar(get_value_of_SNVS_reg_field(m, SNVS_HPLR, MKS_SL_MASK, MKS_SL_OFFSET))
MKS_HL_state(m) ==
  UnsignedChar(get_value_of_SNVS_reg_field(m, SNVS_LPLR, MKS_HL_MASK, MKS_HL_OFFSET))
ZMK_RHL_state(m) ==
  UnsignedChar(get_value_of_SNVS_reg_field(m, SNVS_LPLR, ZMK_RHL_MASK, ZMK_RHL_OFFSET))
ZMK_WHL_state(m) ==
  UnsignedChar(get_value_of_SNVS_reg_field(m, SNVS_LPLR, ZMK_WHL_MASK, ZMK_WHL_OFFSET))

\* The soft-lock test with ZMK_RSL left out.
SoftLocksClear_NoRead(m) ==
  ZMK_WSL_state(m) = 0 /\ MKS_SL_state(m) = 0

SoftLocksClear(m) ==
  ZMK_WSL_state(m) = 0 /\ ZMK_RSL_state(m) = 0 /\ MKS_SL_state(m) = 0

\* The hard-lock test with MKS_HL left out.
HardLocksClear_NoSelect(m) ==
  ZMK_WHL_state(m) = 0 /\ ZMK_RHL_state(m) = 0

HardLocksClear(m) ==
  ZMK_WHL_state(m) = 0 /\ ZMK_RHL_state(m) = 0 /\ MKS_HL_state(m) = 0

B2 ==
  /\ pc = "B2"
  /\ trace' = LogRead(LogRead(LogRead(LogRead(LogRead(LogRead(LogRead(LogRead(
                trace, mem, SNVS_HPLR), mem, SNVS_LPLR),
                mem, SNVS_HPLR), mem, SNVS_HPLR), mem, SNVS_HPLR),
                mem, SNVS_LPLR), mem, SNVS_LPLR), mem, SNVS_LPLR)
  /\ IF SoftLocksClear(mem)
       THEN IF HardLocksClear(mem)
              THEN Goto("B3") /\ UNCHANGED lockedBy
              ELSE FailLocked("hard")
       ELSE FailLocked("soft")
  /\ UNCHANGED <<mem, i, RESET, ecc_enable, mem0, run, first,
               fd, mapped, hw>>

\* What the hardware keeps of a store to the key register: the stored word,
\* or the old word when the SNVS ignores the write (ZMK write not unlocked).
KeyWriteResults(m) ==
  {set_value_of_SNVS_reg(m, SNVS_LPZMKRn, ZMK_VALUE), m}

\* B.3: write the key value to the ZMK register.
B3 ==
  /\ pc = "B3"
  /\ mem' \in KeyWriteResults(mem)
  /\ trace' = LogSet(LogRead(trace, mem, SNVS_LPZMKRn),
                     mem, SNVS_LPZMKRn, ZMK_VALUE)
  /\ hw' = [hw EXCEPT !.key =
              IF mem'[SNVS_LPZMKRn] = StoredWord(mem, SNVS_LPZMKRn, ZMK_VALUE)
                THEN "stored" ELSE "ignored"]
  /\ Goto("B4")
  /\ UNCHANGED <<i, RESET, ecc_enable, mem0, run, first,
               fd, mapped, lockedBy>>

\* if (*get_SNVS_reg(mem, SNVS_LPZMKRn) == ZMK_VALUE)
KeyVerified(m) == get_SNVS_reg(m, SNVS_LPZMKRn) = ZMK_VALUE

\* The else branch of B.4 going on with step B.5 after its message.
MismatchExit_GoesOn ==
  /\ pc' = "B5"
  /\ outcome' = "VerifyMismatch"
  /\ UNCHANGED ret

\* What the else branch of B.4 does after its message: nothing; main()
\* falls through to its last statement.
MismatchExit ==
  /\ pc' = "ret"
  /\ outcome' = "VerifyMismatch"
  /\ UNCHANGED ret

\* B.4: verify that the correct key value is written.
B4 ==
  /\ pc = "B4"
  /\ trace' = LogRead(LogRead(trace, mem, SNVS_LPZMKRn), mem, SNVS_LPZMKRn)
  /\ IF KeyVerified(mem) THEN Goto("B5") ELSE MismatchExit
  /\ UNCHANGED <<mem, i, RESET, ecc_enable, mem0, run, first,
               fd, mapped, lockedBy, hw>>

\* B.5: set SNVS_LPMKCR[ZMK_VAL].
B5 ==
  /\ pc = "B5"
  /\ mem' = set_value_of_SNVS_reg(mem, SNVS_LPMKCR, ZMK_VAL_MASK)
  /\ trace' = LogRead(LogSet(LogRead(trace, mem, SNVS_LPMKCR),
                             mem, SNVS_LPMKCR, ZMK_VAL_MASK),
                      mem', SNVS_LPMKCR)
  /\ Goto("B6")
  /\ UNCHANGED <<i, RESET, ecc_enable, mem0, run, first,
               fd, mapped, lockedBy, hw>>

\* B.6 done only when the ecc_enable option is on.
B6_OnlyIfEnabled ==
  /\ pc = "B6"
  /\ IF ecc_enable
       THEN /\ mem' = set_value_of_SNVS_reg(mem, SNVS_LPMKCR, ZMK_ECC_EN)
            /\ trace' = LogSet(trace, mem, SNVS_LPMKCR, ZMK_ECC_EN)
       ELSE UNCHANGED <<mem, trace>>
  /\ Goto("B78")
  /\ UNCHANGED <<i, RESET, ecc_enable, mem0, run, first,
               fd, mapped, lockedBy, hw>>

\* B.6: set SNVS_LPMKCR[ZMK_ECC_EN]; the source does so in every build.
B6 ==
  /\ pc = "B6"
  /\ mem' = set_value_of_SNVS_reg(mem, SNVS_LPMKCR, ZMK_ECC_EN)
  /\ trace' = LogSet(trace, mem, SNVS_LPMKCR, ZMK_ECC_EN)
  /\ Goto("B78")
  /\ UNCHANGED <<i, RESET, ecc_enable, mem0, run, first,
               fd, mapped, lockedBy, hw>>

\* The lock register and the read, write and select lock bits of a policy.
LockReg(reset) == IF reset = POR THEN SNVS_LPLR ELSE SNVS_HPLR
ReadLock(reset) == IF reset = POR THEN ZMK_RHL_MASK ELSE ZMK_RSL_MASK
WriteLock(reset) == IF reset = POR THEN ZMK_WHL_MASK ELSE ZMK_WSL_MASK
SelectLock(reset) == IF reset = POR THEN MKS_HL_MASK ELSE MKS_SL_MASK

\* B.7 and B.8 in the other order: the write lock first.
B78_WriteLockFirst ==
  /\ pc = "B78"
  /\ LET m1 == set_value_of_SNVS_reg(mem, LockReg(RESET), WriteLock(RESET))
     IN /\ mem' = set_value_of_SNVS_reg(m1, LockReg(RESET), ReadLock(RESET))
        /\ trace' = LogSet(LogSet(trace, mem, LockReg(RESET), WriteLock(RESET)),
                           m1, LockReg(RESET), ReadLock(RESET))
  /\ i' = 0
  /\ Goto("spin")
  /\ UNCHANGED <<RESET, ecc_enable, mem0, run, first,
               fd, mapped, lockedBy, hw>>

\* B.7, B.8: set the ZMK read lock, then the ZMK write lock; i = 0.
B78 ==
  /\ pc = "B78"
  /\ LET m1 == set_value_of_SNVS_reg(mem, LockReg(RESET), ReadLock(RESET))
     IN /\ mem' = set_value_of_SNVS_reg(m1, LockReg(RESET), WriteLock(RESET))
        /\ trace' = LogSet(LogSet(trace, mem, LockReg(RESET), ReadLock(RESET)),
                           m1, LockReg(RESET), WriteLock(RESET))
  /\ i' = 0
  /\ Goto("spin")
  /\ UNCHANGED <<RESET, ecc_enable, mem0, run, first,
               fd, mapped, lockedBy, hw>>

\* The busy-wait without its i++.
Spin_NoIncrement ==
  /\ pc = "spin"
  /\ IF i < TIMEOUT_MAX_VAL
       THEN i' = i /\ pc' = pc
       ELSE i' = i /\ pc' = "check"
  /\ UNCHANGED <<mem, trace, ret, outcome, RESET, ecc_enable, mem0, run, first,
               fd, mapped, lockedBy, hw>>

\* for (i=0; i<TIMEOUT_MAX_VAL; i++){}
Spin ==
  /\ pc = "spin"
  /\ IF i < TIMEOUT_MAX_VAL
       THEN i' = i + 1 /\ pc' = pc
       ELSE i' = i /\ pc' = "check"
  /\ UNCHANGED <<mem, trace, ret, outcome, RESET, ecc_enable, mem0, run, first,
               fd, mapped, lockedBy, hw>>

\* The SNVS zeroizes what software reads of the key once the read lock is
\* set; whether it has done so when the busy-wait ends is the hardware's.
HwZeroize ==
  /\ pc = "check"
  /\ get_SNVS_reg(mem, SNVS_LPZMKRn) # 0
  /\ mem' = [mem EXCEPT ![SNVS_LPZMKRn] = 0]
  /\ UNCHANGED <<pc, trace, i, ret, outcome, RESET, ecc_enable, mem0, run, first,
               fd, mapped, lockedBy, hw>>

\* The security check returning -1 when the key register is not zero.
Check_AbortsOnFailure ==
  /\ pc = "check"
  /\ IF get_SNVS_reg(mem, SNVS_LPZMKRn) = 0
       THEN /\ trace' = LogRead(trace, mem, SNVS_LPZMKRn)
            /\ Goto("B9")
       ELSE /\ trace' = LogRead(LogRead(trace, mem, SNVS_LPZMKRn),
                                mem, SNVS_LPZMKRn)
            /\ Fail("ZeroizeCheckFailed")
  /\ hw' = [hw EXCEPT !.zero =
              IF get_SNVS_reg(mem, SNVS_LPZMKRn) = 0 THEN "yes" ELSE "no"]
  /\ UNCHANGED <<mem, i, RESET, ecc_enable, mem0, run, first,
               fd, mapped, lockedBy>>

\* [SECURITY_CHECK]: is SNVS_LPZMKRn zero after the read lock was set?
Check ==
  /\ pc = "check"
  /\ IF get_SNVS_reg(mem, SNVS_LPZMKRn) = 0
       THEN /\ trace' = LogRead(trace, mem, SNVS_LPZMKRn)
            /\ outcome' = outcome
       ELSE /\ trace' = LogRead(LogRead(trace, mem, SNVS_LPZMKRn),
                                mem, SNVS_LPZMKRn)
            /\ outcome' = "ZeroizeCheckFailed"
  /\ pc' = "B9"
  /\ hw' = [hw EXCEPT !.zero =
              IF get_SNVS_reg(mem, SNVS_LPZMKRn) = 0 THEN "yes" ELSE "no"]
  /\ UNCHANGED <<mem, i, ret, RESET, ecc_enable, mem0, run, first,
               fd, mapped, lockedBy>>

\* B.9: set SNVS_LPMKCR[MASTER_KEY_SEL] and SNVS_HPCOMR[MKS_EN].
B9 ==
  /\ pc = "B9"
  /\ LET m1 == set_value_of_SNVS_reg(mem, SNVS_LPMKCR, MASTER_KEY_SEL_VALUE)
     IN /\ mem' = set_value_of_SNVS_reg(m1, SNVS_HPCOMR, MKS_EN_MASK)
        /\ trace' =
             LogRead(
               LogSet(
                 LogRead(
                   LogRead(LogSet(trace, mem, SNVS_LPMKCR, MASTER_KEY_SEL_VALUE),
                           m1, SNVS_LPMKCR),
                   m1, SNVS_HPCOMR),
                 m1, SNVS_HPCOMR, MKS_EN_MASK),
               mem', SNVS_HPCOMR)
  /\ Goto("B10")
  /\ UNCHANGED <<i, RESET, ecc_enable, mem0, run, first,
               fd, mapped, lockedBy, hw>>

\* B.10 setting the hard select lock whatever the reset policy is.
B10_AlwaysHard ==
  /\ pc = "B10"
  /\ mem' = set_value_of_SNVS_reg(mem, SNVS_LPLR, MKS_HL_MASK)
  /\ trace' = LogSet(trace, mem, SNVS_LPLR, MKS_HL_MASK)
  /\ Goto("ret")
  /\ UNCHANGED <<i, RESET, ecc_enable, mem0, run, first,
               fd, mapped, lockedBy, hw>>

\* B.10: set the MKS lock bit.
B10 ==
  /\ pc = "B10"
  /\ mem' = set_value_of_SNVS_reg(mem, LockReg(RESET), SelectLock(RESET))
  /\ trace' = LogSet(trace, mem, LockReg(RESET), SelectLock(RESET))
  /\ Goto("ret")
  /\ UNCHANGED <<i, RESET, ecc_enable, mem0, run, first,
               fd, mapped, lockedBy, hw>>

\* return 0, the last statement of main().
Return ==
  /\ pc = "ret"
  /\ pc' = "done"
  /\ ret' = 0
  /\ outcome' = IF outcome = "none" THEN "Success" ELSE outcome
  /\ UNCHANGED <<mem, trace, i, RESET, ecc_enable, mem0, run, first,
               fd, mapped, lockedBy, hw>>

Next ==
  \/ Open \/ Mmap \/ Info
  \/ A1 \/ A2 \/ A3
  \/ B1 \/ B2 \/ B3 \/ B4 \/ B5 \/ B6 \/ B78
  \/ Spin \/ HwZeroize \/ Check
  \/ B9 \/ B10 \/ Return

Spec == Init /\ [][Next]_vars

(***************************************************************************)
(* What the properties below read off a run.                               *)
(***************************************************************************)
\* The positions of the trace that are stores to a register of S.
WritesTo(S) == {k \in DOMAIN trace : trace[k][1] = "w" /\ trace[k][2] \in S}

\* The positions of the trace that are stores of a word with a bit of bits set.
WritesOfBits(reg, bits) ==
  {k \in WritesTo({reg}) : BitAnd(trace[k][3], bits) # 0}

\* The security-state field of a window, bits 8..11 of SNVS_HPSR.
SSMField(m) == (m[SNVS_HPSR] \div 256) % 16

ValidMode(m) == SSMField(m) \in {11, 13, 15}

HWPSet(m) == (m[SNVS_LPMKCR] \div 4) % 2 = 1

AnyLatchSet(m) == BitAnd(m[SNVS_HPLR], 515) # 0 \/ BitAnd(m[SNVS_LPLR], 515) # 0

\* The run got its register window: open() and mmap() succeeded.
WindowFailed == outcome \in {"OpenFailed", "MapFailed"}

Done == pc = "done"

Succeeded == outcome \in {"Success", "ZeroizeCheckFailed"}

(***************************************************************************)
(* C1: when the security-state field SNVS_HPSR[SSM_ST] is below 0xB, the   *)
(* run never gets past step A.1, stores nothing to SNVS_LPPGDR, SNVS_HPLR, *)
(* SNVS_LPLR or SNVS_LPZMKRn (nor to any other register), and, once it has *)
(* its register window, ends with WrongMode and a non-zero exit status.    *)
(***************************************************************************)
C1_BelowThresholdWrongMode ==
  SSMField(mem0) < 11 =>
    /\ pc \in {"open", "mmap", "info", "A1", "done"}
    /\ WritesTo({SNVS_LPPGDR, SNVS_HPLR, SNVS_LPLR, SNVS_LPZMKRn}) = {}
    /\ WritesTo(Regs) = {}
    /\ mem = mem0
    /\ (Done /\ ~WindowFailed =>
          outcome = "WrongMode" /\ ExitStatus(ret) # 0)

C1_Witness ==
  /\ Done
  /\ SSMField(mem0) = 10
  /\ outcome = "WrongMode"
  /\ Len(trace) > 0

(***************************************************************************)
(* C2: with a valid security state and at least one of the six lock        *)
(* latches set, the run never reaches the key write (B.3); once it has its *)
(* register window it ends with LockedOut and a non-zero exit status, and  *)
(* SNVS_LPZMKRn holds throughout the value it held before the run.         *)
(***************************************************************************)
C2_LatchSetLockedOut ==
  ValidMode(mem0) /\ AnyLatchSet(mem0) =>
    /\ pc \in {"open", "mmap", "info", "A1", "A2", "A3", "B1", "B2", "done"}
    /\ mem[SNVS_LPZMKRn] = mem0[SNVS_LPZMKRn]
    /\ WritesTo({SNVS_LPZMKRn}) = {}
    /\ (Done /\ ~WindowFailed =>
          outcome = "LockedOut" /\ ExitStatus(ret) # 0)

\* Only the select hard lock is set, ZMK_HWP is clear, and the run has ended.
C2_Witness ==
  /\ Done
  /\ outcome = "LockedOut"
  /\ ValidMode(mem0)
  /\ ~HWPSet(mem0)
  /\ mem0[SNVS_HPLR] = 0
  /\ mem0[SNVS_LPLR] = MKS_HL_MASK
  /\ mem0[SNVS_LPZMKRn] = 0

(***************************************************************************)
(* C3: with a valid security state and SNVS_LPMKCR[ZMK_HWP] set, the run   *)
(* stops at step B.1 (it never reads the lock latches for step B.2), once  *)
(* it has its register window it ends with LockedOut and a non-zero exit   *)
(* status, and it stores nothing to SNVS_LPZMKRn, SNVS_HPLR, SNVS_LPLR,    *)
(* SNVS_LPMKCR or SNVS_HPCOMR, whatever the six lock latches are.          *)
(***************************************************************************)
C3_HwpSetLockedOut ==
  ValidMode(mem0) /\ HWPSet(mem0) =>
    /\ pc \in {"open", "mmap", "info", "A1", "A2", "A3", "B1", "done"}
    /\ WritesTo({SNVS_LPZMKRn, SNVS_HPLR, SNVS_LPLR, SNVS_LPMKCR,
                 SNVS_HPCOMR}) = {}
    /\ (Done /\ ~WindowFailed =>
          outcome = "LockedOut" /\ ExitStatus(ret) # 0)

\* ZMK_HWP is set, all six latches are clear, and the run has ended.
C3_Witness ==
  /\ Done
  /\ outcome = "LockedOut"
  /\ ValidMode(mem0)
  /\ HWPSet(mem0)
  /\ ~AnyLatchSet(mem0)
  /\ WritesTo({SNVS_LPPGDR}) # {}

(***************************************************************************)
(* C4: the exit status is 0 exactly when the terminal outcome is Success   *)
(* (or its advisory variant ZeroizeCheckFailed); WrongMode, LockedOut and  *)
(* VerifyMismatch end with a non-zero exit status.                         *)
(***************************************************************************)
C4_ExitStatusMatchesOutcome ==
  Done => ((ExitStatus(ret) = 0) <=> Succeeded)

(***************************************************************************)
(* C5: once the key read-back of B.4 differs from ZMK_VALUE, the run does  *)
(* nothing more to the registers: the read-back is the last access of the  *)
(* run, nothing was or is stored to SNVS_HPLR, SNVS_LPLR, SNVS_LPMKCR or   *)
(* SNVS_HPCOMR, and those registers hold the words they held before.       *)
(***************************************************************************)
C5_MismatchAborts ==
  outcome = "VerifyMismatch" =>
    /\ pc \in {"ret", "done"}
    /\ mem[SNVS_LPZMKRn] # ZMK_VALUE
    /\ trace[Len(trace)] = <<"r", SNVS_LPZMKRn, mem[SNVS_LPZMKRn]>>
    /\ WritesTo({SNVS_HPLR, SNVS_LPLR, SNVS_LPMKCR, SNVS_HPCOMR}) = {}
    /\ \A r \in {SNVS_HPLR, SNVS_LPLR, SNVS_LPMKCR, SNVS_HPCOMR} :
          mem[r] = mem0[r]

C5_Witness ==
  /\ Done
  /\ outcome = "VerifyMismatch"
  /\ mem0[SNVS_LPZMKRn] = 0

(***************************************************************************)
(* C6: round trip of the key write.  After step B.3 (reached only with a   *)
(* valid security state, ZMK_HWP clear and the six latches clear), in a    *)
(* window that holds the word stored to it, the key register reads back    *)
(* as exactly ZMK_VALUE, and no lock bit has been written yet.             *)
(***************************************************************************)
C6_KeyRoundTrip ==
  (pc = "B4"
   /\ trace[Len(trace)] = <<"w", SNVS_LPZMKRn, mem[SNVS_LPZMKRn]>>) =>
    /\ mem[SNVS_LPZMKRn] = ZMK_VALUE
    /\ WritesTo({SNVS_HPLR, SNVS_LPLR}) = {}

(***************************************************************************)
(* C7: the zeroize check is advisory.  The key register is read again only *)
(* after the read lock of the reset policy was stored and the busy-wait    *)
(* made all its TIMEOUT_MAX_VAL iterations; the outcome is                 *)
(* ZeroizeCheckFailed exactly when that read is not zero; and either way   *)
(* the run then stores the master-key-select code, MKS_EN and the select   *)
(* lock, and ends with exit status 0.                                      *)
(***************************************************************************)
ReadLockWrites == WritesOfBits(LockReg(RESET), ReadLock(RESET))

\* The reads of the key register that follow a store of the read lock.
KeyReadsAfterLock ==
  {k \in DOMAIN trace :
     /\ trace[k][1] = "r"
     /\ trace[k][2] = SNVS_LPZMKRn
     /\ \E j \in ReadLockWrites : j < k}

\* The stores of bits to reg that follow a re-read of the key register.
WritesAfterCheck(reg, bits) ==
  {k \in WritesOfBits(reg, bits) : \A j \in KeyReadsAfterLock : j < k}

C7_ZeroizeCheckAdvisory ==
  /\ pc = "check" => i = TIMEOUT_MAX_VAL /\ ReadLockWrites # {}
  /\ pc = "spin" => KeyReadsAfterLock = {}
  /\ KeyReadsAfterLock # {} =>
       /\ i = TIMEOUT_MAX_VAL
       /\ pc \in {"B9", "B10", "ret", "done"}
       /\ outcome \in {"none", "Success", "ZeroizeCheckFailed"}
       /\ (outcome = "ZeroizeCheckFailed") <=>
            (\E k \in KeyReadsAfterLock : trace[k][3] # 0)
  /\ outcome = "ZeroizeCheckFailed" => KeyReadsAfterLock # {}
  /\ (Done /\ KeyReadsAfterLock # {}) =>
       /\ Succeeded
       /\ ExitStatus(ret) = 0
       /\ WritesAfterCheck(SNVS_LPMKCR, MASTER_KEY_SEL_VALUE) # {}
       /\ WritesAfterCheck(SNVS_HPCOMR, MKS_EN_MASK) # {}
       /\ WritesAfterCheck(LockReg(RESET), SelectLock(RESET)) # {}

C7_Witness ==
  /\ Done
  /\ outcome = "ZeroizeCheckFailed"
  /\ mem[SNVS_LPZMKRn] = ZMK_VALUE
  /\ ret = 0

(***************************************************************************)
(* C8: stores of the error-correction-enable bit ZMK_ECC_EN.               *)
(***************************************************************************)
EccWritten == WritesOfBits(SNVS_LPMKCR, ZMK_ECC_EN) # {}

C9_ProvisionedKeySelected ==
  (Done /\ Succeeded) =>
    /\ mem[SNVS_LPMKCR] % 4 = 2
    /\ BitAnd(mem[SNVS_HPCOMR], MKS_EN_MASK) # 0
    /\ ExitStatus(ret) = 0

(***************************************************************************)
(* C10: which security states pass the Security State Verifier.            *)
(***************************************************************************)
\* Step A.1 has read SNVS_HPSR.
VerifierRan == \E k \in DOMAIN trace : trace[k][2] = SNVS_HPSR

\* C10 as claimed: every value at or above 0xB is accepted and goes on to
\* step A.2; only values below 0xB end in WrongMode.
C10_AllAtThresholdAccepted ==
  VerifierRan =>
    ((SSMField(mem0) >= 11) <=> (outcome # "WrongMode"))

\* C10 as amended: of the values at or above 0xB only 0xB, 0xD and 0xF are
\* accepted and go on to step A.2 (the glitch register is the next one
\* stored to); 0xC and 0xE end in WrongMode before any store, like the
\* values below 0xB.
C10_OnlyKnownModesAccepted ==
  VerifierRan =>
    /\ (SSMField(mem0) \in {11, 13, 15}) <=> (outcome # "WrongMode")
    /\ outcome = "WrongMode" =>
         Done /\ ExitStatus(ret) # 0 /\ WritesTo(Regs) = {}
    /\ outcome # "WrongMode" =>
         \/ pc = "A2"
         \/ \E k \in WritesTo(Regs) :
              /\ trace[k][2] = SNVS_LPPGDR
              /\ \A j \in WritesTo(Regs) : k <= j

\* A run with SSM_ST = 0xE has ended in WrongMode.
C10_Witness ==
  /\ Done
  /\ SSMField(mem0) = 14
  /\ outcome = "WrongMode"

(***************************************************************************)
(* C11: lock invariant over a run.  Once a ZMK write or read lock          *)
(* (ZMK_WSL, ZMK_RSL, ZMK_WHL, ZMK_RHL) has been seen set in the window,   *)
(* read from it or stored to it by the run, the key register SNVS_LPZMKRn  *)
(* is not stored to again; once a select lock (MKS_SL, MKS_HL) has been    *)
(* seen set, SNVS_LPMKCR, which holds the master-key-select field, is not  *)
(* stored to again.                                                        *)
(***************************************************************************)
\* The accesses, reads and stores, that show a bit of bits set in a lock
\* register.
LockSeenAt(bits) ==
  {j \in DOMAIN trace :
     /\ trace[j][2] \in {SNVS_HPLR, SNVS_LPLR}
     /\ BitAnd(trace[j][3], bits) # 0}

C11_NoWriteAfterLock ==
  /\ \A k \in WritesTo({SNVS_LPZMKRn}) : \A j \in LockSeenAt(3) : k < j
  /\ \A k \in WritesTo({SNVS_LPMKCR}) : \A j \in LockSeenAt(512) : k < j
  /\ (BitAnd(mem[SNVS_HPLR], 3) # 0 \/ BitAnd(mem[SNVS_LPLR], 3) # 0) =>
       pc # "B3"
  /\ (BitAnd(mem[SNVS_HPLR], 512) # 0 \/ BitAnd(mem[SNVS_LPLR], 512) # 0) =>
       pc \notin {"B3", "B4", "B5", "B6", "B78", "spin", "check", "B9"}

\* The run wrote the key and the select code, and then set all its locks.
C11_Witness ==
  /\ Done
  /\ WritesTo({SNVS_LPZMKRn}) # {}
  /\ WritesTo({SNVS_LPMKCR}) # {}
  /\ LockSeenAt(3) # {}
  /\ LockSeenAt(512) # {}

(***************************************************************************)
(* C12: the register window, the descriptor of /dev/mem and its mapping,   *)
(* is released on every exit path: when main() has returned, the process   *)
(* holds neither the descriptor nor the mapping.                           *)
(***************************************************************************)
C12_WindowReleased ==
  Done => (fd = -1 /\ ~mapped)

(***************************************************************************)
(* C13: the lock bits follow the reset policy of the build.  Under POR a   *)
(* successful run sets ZMK_RHL, ZMK_WHL and MKS_HL in SNVS_LPLR and no run *)
(* stores to SNVS_HPLR; under SYSTEM_RESET a successful run sets ZMK_RSL,  *)
(* ZMK_WSL and MKS_SL in SNVS_HPLR and no run stores to SNVS_LPLR.  The    *)
(* key locks and the select lock go to the same register.                  *)
(***************************************************************************)
\* The lock register of the policy the build does not use.
OtherLockReg == IF RESET = POR THEN SNVS_HPLR ELSE SNVS_LPLR

PolicyLockReg == IF RESET = POR THEN SNVS_LPLR ELSE SNVS_HPLR

C13_LocksFollowPolicy ==
  /\ RESET \in {POR, SYSTEM_RESET}
  /\ WritesTo({OtherLockReg}) = {}
  /\ mem[OtherLockReg] = mem0[OtherLockReg]
  /\ (Done /\ Succeeded) =>
       /\ mem[PolicyLockReg] = 515
       /\ WritesOfBits(PolicyLockReg, 2) # {}
       /\ WritesOfBits(PolicyLockReg, 1) # {}
       /\ WritesOfBits(PolicyLockReg, 512) # {}
       /\ Cardinality(WritesTo({PolicyLockReg})) = 3

\* A successful run of a build with the system-reset policy.
C13_Witness ==
  /\ Done
  /\ Succeeded
  /\ RESET = SYSTEM_RESET
  /\ mem[SNVS_HPLR] = 515
  /\ mem[SNVS_LPLR] = 0

(***************************************************************************)
(* C14: with a valid security state and whatever SNVS_LPPGDR held before,  *)
(* step A.2 leaves exactly the calibration constant 0x41736166 in          *)
(* SNVS_LPPGDR (the window stores what is written to that register), step  *)
(* A.3 then stores PGD to SNVS_LPSR, and both stores precede every read    *)
(* of SNVS_LPMKCR and every read of the lock registers made after step     *)
(* A.1, also in the runs that end in LockedOut.                            *)
(***************************************************************************)
\* The reads of the registers of S made after step A.1 read SNVS_HPSR.
ReadsAfterVerifier(S) ==
  {k \in DOMAIN trace :
     /\ trace[k][1] = "r"
     /\ trace[k][2] \in S
     /\ \E j \in DOMAIN trace : j < k /\ trace[j][2] = SNVS_HPSR}

C14_GlitchConditioned ==
  (ValidMode(mem0) /\ ~WindowFailed
   /\ pc \notin {"open", "mmap", "info", "A1", "A2"}) =>
    /\ mem[SNVS_LPPGDR] = POWER_GLITCH_VALUE
    /\ WritesTo({SNVS_LPPGDR}) # {}
    /\ pc # "A3" =>
         /\ WritesOfBits(SNVS_LPSR, PGD_MASK) # {}
         /\ \A k \in WritesTo({SNVS_LPPGDR}) :
              \A j \in WritesTo({SNVS_LPSR}) : k < j
    /\ \A k \in WritesTo({SNVS_LPPGDR, SNVS_LPSR}) :
         \A j \in ReadsAfterVerifier({SNVS_LPMKCR, SNVS_HPLR, SNVS_LPLR}) :
           k < j

(***************************************************************************)
(* C15: control flow is linear.  The stores of a run are a prefix of the   *)
(* fixed order: glitch calibration, glitch status clear, key, ZMK_VAL,     *)
(* ZMK_ECC_EN, read lock, write lock, master-key-select code, MKS_EN,      *)
(* select lock, each store adding its bits to the word read just before.   *)
(* The key is stored only after SNVS_HPSR, SNVS_LPMKCR and both lock       *)
(* registers were read and found acceptable; ZMK_VAL and every lock bit    *)
(* are stored only after a read of the key register gave ZMK_VALUE.        *)
(***************************************************************************)
\* The positions of the stores in the trace, in order.
StorePositions ==
  SelectSeq([k \in 1 .. Len(trace) |-> k], LAMBDA k : trace[k][1] = "w")

\* The fixed order of the stores: the register and the bits of each.
StoreOrder ==
  << <<SNVS_LPPGDR, POWER_GLITCH_VALUE>>,
     <<SNVS_LPSR, PGD_MASK>>,
     <<SNVS_LPZMKRn, ZMK_VALUE>>,
     <<SNVS_LPMKCR, ZMK_VAL_MASK>>,
     <<SNVS_LPMKCR, ZMK_ECC_EN>>,
     <<PolicyLockReg, 2>>,
     <<PolicyLockReg, 1>>,
     <<SNVS_LPMKCR, MASTER_KEY_SEL_VALUE>>,
     <<SNVS_HPCOMR, MKS_EN_MASK>>,
     <<PolicyLockReg, 512>> >>

\* Some read of reg at a position in lo .. hi gave a word that has ok.
ReadBetween(reg, lo, hi, ok(_)) ==
  \E j \in lo .. hi :
    trace[j][1] = "r" /\ trace[j][2] = reg /\ ok(trace[j][3])

C15_LinearControlFlow ==
  LET P == StorePositions
      n == Len(P)
  IN /\ n <= Len(StoreOrder)
     /\ \A k \in 1 .. n :
          /\ trace[P[k]][2] = StoreOrder[k][1]
          /\ trace[P[k] - 1] = <<"r", StoreOrder[k][1], trace[P[k] - 1][3]>>
          /\ trace[P[k]][3] = BitOr(trace[P[k] - 1][3], StoreOrder[k][2])
     /\ n >= 3 =>
          /\ ValidMode(mem0) /\ ~HWPSet(mem0) /\ ~AnyLatchSet(mem0)
          /\ ReadBetween(SNVS_HPSR, 1, P[1],
                         LAMBDA w : (w \div 256) % 16 \in {11, 13, 15})
          /\ ReadBetween(SNVS_LPMKCR, P[2], P[3],
                         LAMBDA w : BitAnd(w, ZMK_HWP_MASK) = 0)
          /\ ReadBetween(SNVS_HPLR, P[2], P[3],
                         LAMBDA w : BitAnd(w, 515) = 0)
          /\ ReadBetween(SNVS_LPLR, P[2], P[3],
                         LAMBDA w : BitAnd(w, 515) = 0)
     /\ n >= 4 =>
          ReadBetween(SNVS_LPZMKRn, P[3], P[4], LAMBDA w : w = ZMK_VALUE)

\* A run that made all ten stores.
C15_Witness ==
  /\ Done
  /\ Len(StorePositions) = 10
  /\ mem0[SNVS_LPMKCR] = 1

(***************************************************************************)
(* C16: in every run that reaches the Lock State Checker (the read of      *)
(* SNVS_LPMKCR[ZMK_HWP] at B.1), the three soft latches of SNVS_HPLR and   *)
(* the three hard latches of SNVS_LPLR are all read by the checker before  *)
(* the run aborts or goes on, even when an earlier condition has already   *)
(* failed; the abort is taken on the first failing category in the order   *)
(* programming-mode bit, soft locks, hard locks.                           *)
(***************************************************************************)
\* The positions of the reads of reg that follow the first read of the
\* programming-mode register.
CheckerReads(reg) ==
  {k \in DOMAIN trace :
     /\ trace[k][1] = "r"
     /\ trace[k][2] = reg
     /\ \E j \in DOMAIN trace : j < k /\ trace[j][2] = SNVS_LPMKCR}

CheckerReached == \E k \in DOMAIN trace : trace[k][2] = SNVS_LPMKCR

\* The first failing category of the decision table, "none" if all clear.
FirstFailingCategory(m) ==
  IF HWPSet(m) THEN "hwp"
  ELSE IF BitAnd(m[SNVS_HPLR], 515) # 0 THEN "soft"
  ELSE IF BitAnd(m[SNVS_LPLR], 515) # 0 THEN "hard"
  ELSE "none"

C16_AllLatchesRead ==
  (CheckerReached /\ pc # "B2") =>
    /\ Cardinality(CheckerReads(SNVS_HPLR)) >= 3
    /\ Cardinality(CheckerReads(SNVS_LPLR)) >= 3
    /\ lockedBy = FirstFailingCategory(mem0)

(***************************************************************************)
(* C17: every register write is an accumulate read-modify-write.  Each     *)
(* store follows a read of the same register and stores the word read OR   *)
(* the bits being set, and no step of the program that accesses the        *)
(* registers turns a 1 bit of any register into 0.                         *)
(***************************************************************************)
\* w has every bit of v.
HasBits(w, v) == BitAnd(w, v) = v

EveryStoreMerges ==
  \A k \in WritesTo(Regs) :
    /\ k > 1
    /\ trace[k - 1][1] = "r"
    /\ trace[k - 1][2] = trace[k][2]
    /\ HasBits(trace[k][3], trace[k - 1][3])
    /\ \E n \in DOMAIN StoreOrder :
         /\ trace[k][2] = StoreOrder[n][1]
         /\ trace[k][3] = BitOr(trace[k - 1][3], StoreOrder[n][2])

NoBitCleared ==
  trace' # trace => \A r \in Regs : HasBits(mem'[r], mem[r])

C17_AccumulateOnly == [](EveryStoreMerges) /\ [][NoBitCleared]_vars

\* A store to the glitch register over a stale bit, which the store kept.
C17_Witness ==
  \E k \in WritesTo({SNVS_LPPGDR}) :
    /\ trace[k - 1][3] = 1
    /\ trace[k][3] = BitOr(1, POWER_GLITCH_VALUE)
    /\ mem[SNVS_LPPGDR] = trace[k][3]

(***************************************************************************)
(* C19: every register read or write of a run is at a byte offset inside   *)
(* the mapped register window: offset + 4 is at most the length requested  *)
(* from mmap (ADDR_SIZE).                                                  *)
(***************************************************************************)
C19_AccessInsideWindow ==
  \A k \in DOMAIN trace : trace[k][2] + 4 <= ADDR_SIZE

(***************************************************************************)
(* Two runs of the program, one after the other, from register windows     *)
(* that differ only in the security-state field: the second run starts     *)
(* from the first run's initial window with another valid mode in          *)
(* SNVS_HPSR[SSM_ST], under the same build and the same hardware           *)
(* behaviour (the window is obtained, the key store is kept or ignored and *)
(* the key is zeroized or not as in the first run).                        *)
(***************************************************************************)
\* The stores of a trace, in order.
Stores(t) == SelectSeq(t, LAMBDA e : e[1] = "w")

\* The window m with s in its security-state field.
WithSSM(m, s) ==
  [m EXCEPT ![SNVS_HPSR] = m[SNVS_HPSR] - SSMField(m) * 256 + s * 256]

Restart ==
  /\ pc = "done"
  /\ run = 1
  /\ ValidMode(mem0)
  /\ ~WindowFailed
  /\ \E s \in {11, 13, 15} \ {SSMField(mem0)} :
       /\ mem0' = WithSSM(mem0, s)
       /\ mem' = WithSSM(mem0, s)
  /\ first' = [writes |-> Stores(trace), outcome |-> outcome,
               status |-> ExitStatus(ret), hw |-> hw]
  /\ run' = 2
  /\ pc' = "open"
  /\ trace' = <<>>
  /\ i' = 0
  /\ ret' = 0
  /\ outcome' = "none"
  /\ fd' = -1
  /\ mapped' = FALSE
  /\ lockedBy' = "none"
  /\ hw' = HwUnset
  /\ UNCHANGED <<RESET, ecc_enable>>

\* The second run meets the hardware behaviour of the first.
SameHardware ==
  run = 2 =>
    /\ ~WindowFailed
    /\ hw.key \in {"unset", first.hw.key}
    /\ hw.zero \in {"unset", first.hw.zero}

NextPair ==
  \/ Next /\ SameHardware'
  \/ Restart

SpecPair == Init /\ [][NextPair]_vars

IsPrefix(s, t) ==
  /\ Len(s) <= Len(t)
  /\ \A k \in 1 .. Len(s) : s[k] = t[k]

(***************************************************************************)
(* C18: independence from the observed valid mode.  Two runs from register *)
(* windows that are identical except that the security-state field is a    *)
(* different one of 0xB, 0xD, 0xF make the same sequence of register       *)
(* stores with the same words and end with the same outcome and the same   *)
(* exit status.                                                            *)
(***************************************************************************)
C18_ModeIndependence ==
  run = 2 =>
    /\ IsPrefix(Stores(trace), first.writes)
    /\ Done =>
         /\ Stores(trace) = first.writes
         /\ outcome = first.outcome
         /\ ExitStatus(ret) = first.status

\* A second run in Secure mode that made all ten stores of the first.
C18_Witness ==
  /\ run = 2
  /\ Done
  /\ SSMField(mem0) = 15
  /\ Len(first.writes) = 10
  /\ Stores(trace) = first.writes
  /\ first.outcome = "ZeroizeCheckFailed"

(***************************************************************************)
(* The program under its scheduling: it is one thread with no blocking     *)
(* call after mmap, so whenever a step is possible a step is taken.        *)
(***************************************************************************)
FairSpec == Spec /\ WF_vars(Next)

(***************************************************************************)
(* C20: from every initial register window the run terminates in exactly   *)
(* one terminal outcome.  There is no retry and no loop but the zeroize    *)
(* busy-wait, which makes exactly TIMEOUT_MAX_VAL (0x1000) iterations with *)
(* no register access inside it; once the key register has been written    *)
(* the run always reaches a terminal outcome.                              *)
(***************************************************************************)
\* The place of each program position in the source order.
Position(l) ==
  CASE l = "open" -> 1 [] l = "mmap" -> 2 [] l = "info" -> 3
    [] l = "A1" -> 4 [] l = "A2" -> 5 [] l = "A3" -> 6
    [] l = "B1" -> 7 [] l = "B2" -> 8 [] l = "B3" -> 9
    [] l = "B4" -> 10 [] l = "B5" -> 11 [] l = "B6" -> 12
    [] l = "B78" -> 13 [] l = "spin" -> 14 [] l = "check" -> 15
    [] l = "B9" -> 16 [] l = "B10" -> 17 [] l = "ret" -> 18
    [] l = "done" -> 19

Outcomes ==
  {"Success", "ZeroizeCheckFailed", "VerifyMismatch", "LockedOut",
   "WrongMode", "OpenFailed", "MapFailed"}

KeyWritten == WritesTo({SNVS_LPZMKRn}) # {}

\* The busy-wait counts up to TIMEOUT_MAX_VAL and is left only then; a
\* finished run has one of the terminal outcomes.
SpinCounted ==
  /\ pc = "spin" => i \in 0 .. TIMEOUT_MAX_VAL
  /\ Position(pc) > Position("spin") /\ KeyWritten /\ outcome # "VerifyMismatch"
       => i = TIMEOUT_MAX_VAL
  /\ Done => outcome \in Outcomes

\* A step either moves forward in the source, or is one iteration of the
\* busy-wait, which accesses no register, or is the hardware's zeroization;
\* nothing follows the return, and a decided failure is never revised.
NoRetry ==
  /\ pc # "done"
  /\ pc' # pc => Position(pc') > Position(pc)
  /\ pc' = pc =>
       \/ pc = "spin" /\ i' = i + 1 /\ trace' = trace /\ mem' = mem
       \/ pc = "check" /\ trace' = trace
  /\ pc = "spin" /\ pc' # pc => pc' = "check" /\ trace' = trace /\ mem' = mem

C20_Terminates ==
  /\ <>Done
  /\ KeyWritten ~> Done
  /\ [](SpinCounted)
  /\ [][NoRetry]_vars

\* A finished run that wrote the key and went through the whole busy-wait.
C20_Witness ==
  /\ Done
  /\ KeyWritten
  /\ i = TIMEOUT_MAX_VAL
  /\ outcome = "Success"

=============================================================================
